---------------------------- MODULE Spec2Model ----------------------------
(***************************************************************************)
(* A model of the client-side state of the StyleMate wardrobe assistant:   *)
(* the conversation log of the StylistChat component and the wardrobe and  *)
(* favorites collections of the App component.                             *)
(*                                                                         *)
(* React state.  A state variable of a component (messages, isLoading,     *)
(* wardrobe, favorites) is modelled by its value with every queued update  *)
(* applied: the setters are called with updater functions (prev => ...)    *)
(* or with a value, React applies the queue in call order, so the value a  *)
(* later updater receives is the value written here.  What a handler       *)
(* reads directly (isLoading in handleSend, messages passed as history) is *)
(* a constant of the closure created by the last render: the variable      *)
(* rendered holds that snapshot and only the Render step refreshes it.     *)
(*                                                                         *)
(* A handler runs to completion up to its first await, so the synchronous  *)
(* part of handleSend is one step and the continuation after the await     *)
(* (the completion of the request) is another.                             *)
(*                                                                         *)
(* The chat is modelled for the lifetime of one mounted StylistChat.       *)
(*                                                                         *)
(* Effects.  A useEffect callback runs after the render that follows the   *)
(* change of its dependency, so the handler that changes a collection and  *)
(* the effect that writes it to localStorage are two steps.  An exception  *)
(* that leaves a render or an effect unmounts the component tree: the      *)
(* application has crashed until the page is loaded again.                 *)
(***************************************************************************)
EXTENDS Naturals, Sequences, FiniteSets

VARIABLES
  messages,   \* StylistChat: the conversation log (useState messages)
  isLoading,  \* StylistChat: the in-flight flag (useState isLoading)
  rendered,   \* StylistChat: what the closures of the last render captured
  requests,   \* generateStylistResponse calls awaited by handleSend, not yet settled
  now,        \* the clock read by Date.now()
  uuids,      \* number of crypto.randomUUID() values handed out
  wardrobe,   \* App: the wardrobe collection (useState wardrobe)
  favorites,  \* App: the favorited outfits (useState favorites)
  storage,    \* localStorage: the wardrobe and the favorites documents
  app,        \* App: mounted or not, the effects queued, the type of favorites
  upload,     \* Wardrobe: the batch handleFileUpload is working through
  gen,        \* OutfitGenerator: the form and the requests it has issued
  norm,       \* the payload last given to the normalizer, and its result
  last        \* history: the last operation invoked and its arguments

vars == <<messages, isLoading, rendered, requests, now, uuids, wardrobe,
          favorites, storage, app, upload, gen, norm, last>>

(***************************************************************************)
(* Bounds of the model.                                                    *)
(***************************************************************************)
MaxUuids == 4      \* identifiers generated in one run
MaxClock == 2      \* the clock runs from 0 to MaxClock
MaxWardrobe == 2   \* items held by the wardrobe
MaxFiles == 3      \* files chosen for one upload

(***************************************************************************)
(* Texts.  A text is a sequence of tokens.  What the user types is spelt   *)
(* character by character, so that trim() is computed; a string literal of *)
(* the source is a single token.                                           *)
(***************************************************************************)
Whitespace == {" "}

Texts == {<<>>, <<" ", " ">>, <<" ", "a", " ">>}

RECURSIVE TrimStart(_)
TrimStart(t) ==
  IF t # <<>> /\ Head(t) \in Whitespace THEN TrimStart(Tail(t)) ELSE t

RECURSIVE TrimEnd(_)
TrimEnd(t) ==
  IF t # <<>> /\ t[Len(t)] \in Whitespace
    THEN TrimEnd(SubSeq(t, 1, Len(t) - 1))
    ELSE t

Trim(t) == TrimEnd(TrimStart(t))

\* JavaScript truthiness of a string: the empty string is falsy.
Truthy(t) == t # <<>>

\* a || b on strings
OrElse(a, b) == IF Truthy(a) THEN a ELSE b

\* crypto.randomUUID(): the n-th identifier handed out
UUID(n) == <<"uuid", n>>

InitId == <<"init">>

SeedContent ==
  <<"Hi! I'm your AI Style Mate. Upload your clothes, then tell me where you're going (e.g. 'Date Night')!">>

ClearedContent ==
  <<"Hi! I'm your AI Style Mate. Upload your clothes, then tell me where you're going!">>

TroubleConnecting ==
  <<"Sorry, I'm having trouble connecting right now. Please try again.">>

NetworkIssue == <<"Network issue occurred.">>

TryAgain == <<"Try again">>

\* A message without a rich payload has no data field in the source.
NoData == [present |-> FALSE, mode |-> "", message |-> <<>>,
           outfits |-> <<>>, suggestions |-> <<>>]

Message(id, role, content, data, ts) ==
  [id |-> id, role |-> role, content |-> content, data |-> data,
   timestamp |-> ts]


(***************************************************************************)
(* Loosely typed values.  What the AI service returns is parsed JSON, so a *)
(* field may be absent, a string or an array whatever the declared type    *)
(* says.  Such a value is a record of its type tag t and its content v,    *)
(* always a sequence of strings: empty for undefined, the one string of a  *)
(* string, the elements of an array.                                       *)
(***************************************************************************)
Undefined == [t |-> "undefined", v |-> <<>>]

Str(s) == [t |-> "string", v |-> <<s>>]

Arr(a) == [t |-> "array", v |-> a]

IsArray(j) == j.t = "array"

\* JavaScript truthiness: undefined and "" are falsy, every array is truthy.
JTruthy(j) == j.t = "array" \/ (j.t = "string" /\ j.v # <<"">>)

\* a || b
JOr(a, b) == IF JTruthy(a) THEN a ELSE b

(***************************************************************************)
(* The conversational AI service (generateStylistResponse).                *)
(***************************************************************************)
\* The prompt is built before the try block: item.style.join(", ") throws
\* for an item whose style is not an array.
PromptThrows(w) == \E i \in 1..Len(w) : ~IsArray(w[i].style)

\* What the call to the AI service can end in: a parsed payload, a transport
\* error, or a text that JSON.parse rejects.
Payloads ==
  { [message |-> <<"Try the blue shirt.">>,
     suggestions |-> << <<"Show me shoes">> >>],
    [message |-> <<>>, suggestions |-> <<>>] }

Outcomes ==
  { [kind |-> "ok", payload |-> p] : p \in Payloads }
    \cup { [kind |-> k, payload |-> [message |-> <<>>, suggestions |-> <<>>]] :
             k \in {"transport", "unparsable"} }

Failed(outcome) == outcome.kind \in {"transport", "unparsable"}

OutfitCard(id, description) == [id |-> id, description |-> description]

\* The StylistResponse the service resolves with: the normalized payload, or
\* the placeholder of its catch block.
GenerateStylistResponse(outcome) ==
  IF Failed(outcome)
    THEN [present |-> TRUE, mode |-> "wardrobe_outfit",
          message |-> NetworkIssue, outfits |-> <<>>,
          suggestions |-> <<TryAgain>>]
    ELSE [present |-> TRUE, mode |-> "wardrobe_outfit",
          message |-> outcome.payload.message,
          outfits |-> <<OutfitCard("generated-outfit", outcome.payload.message)>>,
          suggestions |-> outcome.payload.suggestions]

(***************************************************************************)
(* StylistChat.                                                            *)
(***************************************************************************)
\* The record of an operation: its name, and where it has them its text, the
\* outcome of the AI call and the id it was given.
Op(op, text, outcome, id) ==
  [op |-> op, text |-> text, outcome |-> outcome, id |-> id]

\* Mutant of AppendUpdater: the message is put in front, [msg, ...prev].
PrependUpdater(prev, msg) == <<msg>> \o prev

\* setMessages((prev) => [...prev, msg])
AppendUpdater(prev, msg) == Append(prev, msg)

\* Mutant of StylistTimestamp: the reply reuses the timestamp of the user
\* message it answers.
StylistTimestampOfUserMsg(r, clock) == r.userMsg.timestamp

\* timestamp: Date.now(), read when the stylist message is built after the await
StylistTimestamp(r, clock) == clock

\* The guard of handleSend, on the isLoading the closure captured.
Rejects(text, loading) == Trim(text) = <<>> \/ loading

\* The synchronous part of handleSend(text): the guard, the user message, the
\* in-flight flag and the call to generateStylistResponse.
HandleSend(text) ==
  /\ app.status = "mounted"
  /\ last' = Op("send", text, "", <<>>)
  /\ IF Rejects(text, rendered.isLoading)
       THEN UNCHANGED <<messages, isLoading, requests, uuids>>
       ELSE \* bound: the identifiers left cover this message and every reply
            /\ uuids + Cardinality(requests) + 2 <= MaxUuids
            /\ LET userMsg == Message(UUID(uuids + 1), "user", text, NoData, now)
               IN /\ messages' = AppendUpdater(messages, userMsg)
                  /\ requests' = requests \cup
                       { [userMsg |-> userMsg, text |-> text,
                          history |-> rendered.messages,
                          threw |-> PromptThrows(wardrobe)] }
            /\ isLoading' = TRUE
            /\ uuids' = uuids + 1
  /\ UNCHANGED <<rendered, now, wardrobe, favorites>>
  /\ UNCHANGED <<storage, app, upload, gen, norm>>

\* The input form: onSubmit calls handleSend(input).
SubmitForm == \E text \in Texts : HandleSend(text)

\* A quick-reply button of a rendered stylist message: onClick calls
\* handleSend(s).
ClickSuggestion ==
  \E i \in 1..Len(rendered.messages) :
    /\ rendered.messages[i].role # "user"
    /\ \E j \in 1..Len(rendered.messages[i].data.suggestions) :
         HandleSend(rendered.messages[i].data.suggestions[j])

\* Mutant of CompleteResolved: the placeholder response of a failed call is
\* dropped instead of being shown.
CompleteResolvedDropsFailure(r, outcome) ==
  /\ LET response == GenerateStylistResponse(outcome)
     IN messages' =
          IF Failed(outcome)
            THEN messages
            ELSE AppendUpdater(messages,
                   Message(UUID(uuids + 1), "stylist",
                           OrElse(response.message, <<>>), response,
                           StylistTimestamp(r, now)))
  /\ last' = Op("complete", r.text, outcome.kind, <<>>)

\* The try branch of handleSend after the await: the service resolved, the
\* stylist message carries its response.
CompleteResolved(r, outcome) ==
  /\ LET response == GenerateStylistResponse(outcome)
     IN messages' = AppendUpdater(messages,
          Message(UUID(uuids + 1), "stylist", OrElse(response.message, <<>>),
                  response, StylistTimestamp(r, now)))
  /\ last' = Op("complete", r.text, outcome.kind, <<>>)

\* The catch branch of handleSend: generateStylistResponse rejected.
CompleteThrew(r) ==
  /\ messages' = AppendUpdater(messages,
       Message(UUID(uuids + 1), "stylist", TroubleConnecting, NoData, now))
  /\ last' = Op("complete", r.text, "threw", <<>>)

\* The continuation of handleSend after the await, for request r: the try or
\* the catch branch, then the finally block.
Complete(r, outcome) ==
  /\ app.status = "mounted"
  /\ r \in requests
  /\ IF r.threw THEN CompleteThrew(r) ELSE CompleteResolved(r, outcome)
  /\ isLoading' = FALSE
  /\ requests' = requests \ {r}
  /\ uuids' = uuids + 1
  /\ UNCHANGED <<rendered, now, wardrobe, favorites>>
  /\ UNCHANGED <<storage, app, upload, gen, norm>>

RequestCompletes == \E r \in requests : \E outcome \in Outcomes : Complete(r, outcome)

\* clearHistory(): confirm() answers confirmed.
ClearHistory(confirmed) ==
  /\ app.status = "mounted"
  /\ IF confirmed
       THEN /\ messages' = <<Message(InitId, "stylist", ClearedContent, NoData, now)>>
            /\ last' = Op("clear", <<>>, "", <<>>)
       ELSE /\ UNCHANGED messages
            /\ last' = Op("decline", <<>>, "", <<>>)
  /\ UNCHANGED <<isLoading, rendered, requests, now, uuids, wardrobe,
                 favorites>>
  /\ UNCHANGED <<storage, app, upload, gen, norm>>

ClickClear == \E confirmed \in BOOLEAN : ClearHistory(confirmed)

\* React renders StylistChat: the closures now capture the current state.
Render ==
  /\ app.status = "mounted"
  /\ rendered # [isLoading |-> isLoading, messages |-> messages]
  /\ rendered' = [isLoading |-> isLoading, messages |-> messages]
  /\ last' = Op("render", <<>>, "", <<>>)
  /\ UNCHANGED <<messages, isLoading, requests, now, uuids, wardrobe,
                 favorites>>
  /\ UNCHANGED <<storage, app, upload, gen, norm>>

\* Time passes.
Tick ==
  /\ now < MaxClock
  /\ now' = now + 1
  /\ last' = Op("tick", <<>>, "", <<>>)
  /\ UNCHANGED <<messages, isLoading, rendered, requests, uuids, wardrobe,
                 favorites>>
  /\ UNCHANGED <<storage, app, upload, gen, norm>>

(***************************************************************************)
(* App: the wardrobe and the favorites.                                    *)
(***************************************************************************)
\* What analyzeClothingImage can resolve with: the classification, a
\* classification with fields missing, one whose style is not an array, and
\* the placeholder of its catch block.
Analyses ==
  { [category |-> Str("Shirt"), color |-> Str("Blue"),
     season |-> Arr(<<"Summer">>), style |-> Arr(<<"Casual">>),
     description |-> Str("A blue shirt")],
    [category |-> Undefined, color |-> Undefined, season |-> Undefined,
     style |-> Undefined, description |-> Undefined],
    [category |-> Str("Shoes"), color |-> Str(""),
     season |-> Arr(<<>>), style |-> Str("Formal"),
     description |-> Undefined],
    [category |-> Str("Unknown"), color |-> Str("Unknown"),
     season |-> Arr(<<"All-Year">>), style |-> Arr(<<"Casual">>),
     description |-> Str("Could not analyze item.")] }

\* The ClothingItem that handleFileUpload builds from a classification.
NewItem(id, image, analysis) ==
  [id |-> id,
   image |-> image,
   category |-> JOr(analysis.category, Str("Unknown")),
   color |-> JOr(analysis.color, Str("Unknown")),
   season |-> JOr(analysis.season, Arr(<<>>)),
   style |-> JOr(analysis.style, Arr(<<>>)),
   description |-> analysis.description]

\* The ids a remove can be asked for: those handed out, and one never used.
ItemIds == { UUID(n) : n \in 1..(MaxUuids + 1) }

\* The outfit cards a favorite toggle can be given.  Every card the stylist
\* service builds has the id "generated-outfit"; stored favorites may carry
\* other ids.
Outfits ==
  { OutfitCard("generated-outfit", <<"Try the blue shirt.">>),
    OutfitCard("generated-outfit", <<>>),
    OutfitCard("look-2", <<"Linen and loafers.">>),
    OutfitCard("look-3", <<"Rain layers.">>) }

\* Mutant of AddItemUpdater: the item is put at the end, [...prev, item].
AddItemAtEnd(prev, item) == Append(prev, item)

\* setWardrobe(prev => [item, ...prev])
AddItemUpdater(prev, item) == <<item>> \o prev

\* Mutant of RemoveItemUpdater: the filter keeps what it should drop,
\* item.id === id.
RemoveItemKeepsMatch(prev, id) == SelectSeq(prev, LAMBDA item : item.id = id)

\* setWardrobe(prev => prev.filter(item => item.id !== id))
RemoveItemUpdater(prev, id) == SelectSeq(prev, LAMBDA item : item.id # id)

\* Mutant of ToggleFavoriteUpdater: the removal filters on f.id === outfit.id
\* and so keeps the favorite it should drop.
ToggleFavoriteKeepsMatch(prev, outfit) ==
  IF \E i \in 1..Len(prev) : prev[i].id = outfit.id
    THEN SelectSeq(prev, LAMBDA f : f.id = outfit.id)
    ELSE <<outfit>> \o prev

\* setFavorites(prev => prev.some(f => f.id === outfit.id)
\*                       ? prev.filter(f => f.id !== outfit.id)
\*                       : [outfit, ...prev])
ToggleFavoriteUpdater(prev, outfit) ==
  IF \E i \in 1..Len(prev) : prev[i].id = outfit.id
    THEN SelectSeq(prev, LAMBDA f : f.id # outfit.id)
    ELSE <<outfit>> \o prev

\* A state setter was called with a new array: the effect that depends on
\* that state runs after the next render.
QueueEffect(a, key) == [a EXCEPT !.effects = @ \cup {key}]

\* Mutant of HandleAddItem: the batch keeps the items it has built and
\* writes them back with every add, setWardrobe([...built, ...items]).
HandleAddItemWritesBatchBack(item) ==
  /\ app.status = "mounted"
  /\ LET lost == SelectSeq(upload.files, LAMBDA f :
                   /\ f.status = "added"
                   /\ \A w \in 1..Len(wardrobe) : wardrobe[w].id # f.item)
     IN wardrobe' = <<item>>
                      \o [k \in 1..Len(lost) |->
                            [item EXCEPT !.id = lost[k].item]]
                      \o wardrobe
  /\ app' = QueueEffect(app, "wardrobe")
  /\ last' = Op("add", <<>>, "", item.id)
  /\ UNCHANGED <<favorites, messages, isLoading, rendered, requests, now>>
  /\ UNCHANGED <<storage, gen, norm>>

HandleAddItem(item) ==
  /\ app.status = "mounted"
  /\ wardrobe' = AddItemUpdater(wardrobe, item)
  /\ app' = QueueEffect(app, "wardrobe")
  /\ last' = Op("add", <<>>, "", item.id)
  /\ UNCHANGED <<favorites, messages, isLoading, rendered, requests,
                 now>>
  /\ UNCHANGED <<storage, gen, norm>>

\* An upload has classified one image as one of analyses: onAddItem(newItem).
AddItemOf(analyses) ==
  /\ uuids < MaxUuids
  /\ Len(wardrobe) < MaxWardrobe
  /\ uuids' = uuids + 1
  /\ \E analysis \in analyses :
       HandleAddItem(NewItem(UUID(uuids + 1), "data:image", analysis))
  /\ UNCHANGED upload

AddNewItem == AddItemOf(Analyses)

\* Mutant of HandleRemoveItem: the favorites that name the removed item are
\* dropped with it.
HandleRemoveItemPrunesFavorites(id) ==
  /\ app.status = "mounted"
  /\ wardrobe' = RemoveItemUpdater(wardrobe, id)
  /\ favorites' = SelectSeq(favorites, LAMBDA f :
                     \A k \in 1..Len(f.selectedItemIds.v) :
                       f.selectedItemIds.v[k] # id)
  /\ app' = QueueEffect(app, "wardrobe")
  /\ last' = Op("remove", <<>>, "", id)
  /\ UNCHANGED <<uuids, messages, isLoading, rendered, requests, now>>
  /\ UNCHANGED <<storage, upload, gen, norm>>

HandleRemoveItem(id) ==
  /\ app.status = "mounted"
  /\ wardrobe' = RemoveItemUpdater(wardrobe, id)
  /\ app' = QueueEffect(app, "wardrobe")
  /\ last' = Op("remove", <<>>, "", id)
  /\ UNCHANGED <<favorites, uuids, messages, isLoading, rendered, requests,
                 now>>
  /\ UNCHANGED <<storage, upload, gen, norm>>

ClickRemove == \E id \in ItemIds : HandleRemoveItem(id)

HandleToggleFavorite(outfit) ==
  /\ app.status = "mounted"
  /\ app.favoritesType = "array"
  /\ favorites' = ToggleFavoriteUpdater(favorites, outfit)
  /\ app' = QueueEffect(app, "favorites")
  /\ last' = Op("toggle", <<>>, "", <<outfit.id>>)
  /\ UNCHANGED <<wardrobe, uuids, messages, isLoading, rendered, requests,
                 now>>
  /\ UNCHANGED <<storage, upload, gen, norm>>

\* The heart button of a card showing one of outfits.
ToggleOf(outfits) == \E outfit \in outfits : HandleToggleFavorite(outfit)

ClickFavorite == ToggleOf(Outfits)

(***************************************************************************)
(* App: localStorage.  A document is what getItem returns, named by what   *)
(* JSON.parse makes of it: nothing stored, a text JSON.parse rejects, a    *)
(* JSON value that is not an array (an object, null), or an array, whose   *)
(* entries are in v.  An entry of the wardrobe document is a JSON object   *)
(* with loosely typed properties, or null; a property that is not there    *)
(* reads as undefined.                                                     *)
(***************************************************************************)
NoDoc == [t |-> "absent", v |-> <<>>]

Unparsable == [t |-> "unparsable", v |-> <<>>]

JsonObject == [t |-> "object", v |-> <<>>]

JsonNull == [t |-> "null", v |-> <<>>]

JsonArray(entries) == [t |-> "array", v |-> entries]

\* The id of an item as a JSON string.
IdStr(id) == [t |-> "string", v |-> id]

Entry(t, id, image, category, color, season, style, description) ==
  [t |-> t, id |-> id, image |-> image, category |-> category,
   color |-> color, season |-> season, style |-> style,
   description |-> description]

\* JSON.stringify of a ClothingItem, read back by JSON.parse: the strings and
\* the arrays as they are; a property whose value is undefined is left out.
StringifyItem(item) ==
  Entry("object", IdStr(item.id), Str(item.image), item.category, item.color,
        item.season, item.style, item.description)

\* JSON.stringify(wardrobe)
StringifyWardrobe(w) == JsonArray([i \in 1..Len(w) |-> StringifyItem(w[i])])

\* JSON.stringify(favorites), for the type of value the state holds.
StringifyFavorites(type, f) == [t |-> type, v |-> f]

\* The entries parsed.map() gets through: item.id throws at a null entry, and
\* the catch block of the initializer takes over.
RECURSIVE Mapped(_)
Mapped(entries) ==
  IF entries = <<>> \/ Head(entries).t = "null"
    THEN <<>>
    ELSE <<Head(entries)>> \o Mapped(Tail(entries))

\* How many of the first i entries get their id from crypto.randomUUID().
Lacking(entries, i) == Cardinality({ k \in 1..i : ~JTruthy(entries[k].id) })

\* The callback of parsed.map() in the wardrobe initializer.
LoadItem(entry, fresh) ==
  [id |-> IF JTruthy(entry.id) THEN entry.id.v ELSE fresh,
   image |-> IF JTruthy(entry.image) THEN entry.image.v[1] ELSE "",
   category |-> JOr(entry.category, Str("Unknown")),
   color |-> JOr(entry.color, Str("Unknown")),
   season |-> IF IsArray(entry.season) THEN entry.season ELSE Arr(<<>>),
   style |-> IF IsArray(entry.style) THEN entry.style ELSE Arr(<<>>),
   description |-> JOr(entry.description, Str(""))]

\* The wardrobe initializer, with n identifiers handed out before it runs.
LoadWardrobe(doc, n) ==
  IF doc.t # "array" \/ Mapped(doc.v) # doc.v
    THEN <<>>
    ELSE [i \in 1..Len(doc.v) |->
            LoadItem(doc.v[i], UUID(n + Lacking(doc.v, i)))]

\* The favorites initializer: saved ? JSON.parse(saved) : [], [] on a throw.
LoadFavorites(doc) ==
  IF doc.t \in {"absent", "unparsable"} THEN JsonArray(<<>>) ELSE doc

\* Entries found in a stored wardrobe document: a full item, a second item
\* stored under the same id, objects with properties missing, null.
SavedItem ==
  StringifyItem([id |-> UUID(0), image |-> "data:image",
                 category |-> Str("Shirt"), color |-> Str("Blue"),
                 season |-> Arr(<<"Summer">>), style |-> Arr(<<"Casual">>),
                 description |-> Str("A blue shirt")])

SameIdItem ==
  StringifyItem([id |-> UUID(0), image |-> "data:image",
                 category |-> Str("Hat"), color |-> Str("Red"),
                 season |-> Arr(<<"Winter">>), style |-> Arr(<<"Casual">>),
                 description |-> Str("A red hat")])

EmptyEntry ==
  Entry("object", Undefined, Undefined, Undefined, Undefined, Undefined,
        Undefined, Undefined)

PartialEntry ==
  Entry("object", Undefined, Str("data:image"), Str("Hat"), Undefined,
        Str("Winter"), Undefined, Undefined)

NullEntry ==
  Entry("null", Undefined, Undefined, Undefined, Undefined, Undefined,
        Undefined, Undefined)

\* What the wardrobe key can hold when the page is opened.
WardrobeDocs ==
  { NoDoc, Unparsable, JsonObject,
    JsonArray(<<SavedItem>>),
    JsonArray(<<PartialEntry>>),
    JsonArray(<<SavedItem, EmptyEntry>>),
    JsonArray(<<SavedItem, SameIdItem>>),
    JsonArray(<<SavedItem, NullEntry>>) }

\* What the favorites key can hold when the page is opened.
FavoritesDocs ==
  { NoDoc, Unparsable, JsonObject, JsonNull,
    JsonArray(<<OutfitCard("look-2", <<"Linen and loafers.">>)>>) }

\* The page is loaded or reloaded: App mounts, the initializers of its state
\* read the two documents, and both persistence effects are queued for the
\* first render.
Mount ==
  /\ uuids + Lacking(Mapped(storage.wardrobe.v), Len(Mapped(storage.wardrobe.v)))
       <= MaxUuids
  /\ uuids' = uuids
       + Lacking(Mapped(storage.wardrobe.v), Len(Mapped(storage.wardrobe.v)))
  /\ wardrobe' = LoadWardrobe(storage.wardrobe, uuids)
  /\ LET loaded == LoadFavorites(storage.favorites)
     IN /\ favorites' = loaded.v
        /\ app' = [status |-> "mounted", effects |-> {"wardrobe", "favorites"},
                   favoritesType |-> loaded.t]
  /\ last' = Op("mount", <<>>, "", <<>>)
  /\ UNCHANGED <<messages, isLoading, rendered, requests, now, storage,
                 upload, gen, norm>>

\* The Favorites tab is rendered over a favorites state that is not an
\* array: favorites.length or favorites.map throws, and React unmounts the
\* tree.
ShowFavorites ==
  /\ app.status = "mounted"
  /\ app.favoritesType # "array"
  /\ app' = [app EXCEPT !.status = "crashed", !.effects = {}]
  /\ last' = Op("show", <<"favorites">>, "threw", <<>>)
  /\ UNCHANGED <<messages, isLoading, rendered, requests, now, uuids,
                 wardrobe, favorites, storage, upload, gen, norm>>

\* A persistence effect has run: localStorage.setItem stored the text, or
\* threw (the quota is exceeded); nothing catches the throw, and React
\* unmounts the tree.
Persisted(key, text, stored) ==
  /\ app.status = "mounted"
  /\ key \in app.effects
  /\ IF stored
       THEN /\ storage' = [storage EXCEPT ![key] = text]
            /\ app' = [app EXCEPT !.effects = @ \ {key}]
            /\ last' = Op("persist", <<key>>, "stored", <<>>)
       ELSE /\ UNCHANGED storage
            /\ app' = [app EXCEPT !.status = "crashed", !.effects = {}]
            /\ last' = Op("persist", <<key>>, "quota", <<>>)
  /\ UNCHANGED <<messages, isLoading, rendered, requests, now, uuids,
                 wardrobe, favorites, upload, gen, norm>>

\* useEffect(() => localStorage.setItem(..., JSON.stringify(wardrobe)), [wardrobe])
PersistWardrobe ==
  \E stored \in BOOLEAN :
    Persisted("wardrobe", StringifyWardrobe(wardrobe), stored)

\* useEffect(() => localStorage.setItem(..., JSON.stringify(favorites)), [favorites])
PersistFavorites ==
  \E stored \in BOOLEAN :
    Persisted("favorites", StringifyFavorites(app.favoritesType, favorites),
              stored)

(***************************************************************************)
(* Wardrobe: the upload of a batch of files.                               *)
(***************************************************************************)
\* uploadProgress is null when no batch is being worked on.
NoProgress == [current |-> 0, total |-> 0]

\* No batch yet: isAnalyzing is false, nothing is logged.
UploadIdle ==
  [isAnalyzing |-> FALSE, uploadProgress |-> NoProgress, files |-> <<>>,
   i |-> 0, log |-> <<>>]

\* Where the loop is with one file: waiting for its turn, being read, being
\* classified, added to the wardrobe, or skipped by the catch block of the
\* loop; how its classification ended; the id of the item built from it.
FileState(status, classified, item) ==
  [status |-> status, classified |-> classified, item |-> item]

\* console.error: who logged, and the file the message names (0: none).
LogEntry(by, file) == [by |-> by, file |-> file]

\* Mutant of StartBatch: the reads of all the files are started at once.
StartBatchAllAtOnce(n) == [k \in 1..n |-> FileState("reading", "", <<>>)]

\* The loop enters its first iteration: file 1 is handed to the FileReader.
StartBatch(n) ==
  [k \in 1..n |->
     FileState(IF k = 1 THEN "reading" ELSE "waiting", "", <<>>)]

\* Mutant of Settle: the try block encloses the loop, so the first file that
\* fails ends the batch.
SettleAbortsOnSkip(u, status, classified, item, logged) ==
  [u EXCEPT !.files[u.i] = FileState(status, classified, item),
            !.log = @ \o logged,
            !.i = IF status = "skipped" THEN Len(u.files) ELSE @]

\* The iteration of file u.i ends; logged is what it wrote to the console.
Settle(u, status, classified, item, logged) ==
  [u EXCEPT !.files[u.i] = FileState(status, classified, item),
            !.log = @ \o logged]

\* The loop goes on to the next file, or is through: isAnalyzing false,
\* uploadProgress null.
Advance(u) ==
  IF u.i < Len(u.files)
    THEN [u EXCEPT !.i = @ + 1,
                   !.uploadProgress =
                      [current |-> u.i + 1, total |-> Len(u.files)],
                   !.files[u.i + 1] = FileState("reading", "", <<>>)]
    ELSE [u EXCEPT !.isAnalyzing = FALSE, !.uploadProgress = NoProgress]

\* The placeholder analyzeClothingImage resolves with from its catch block.
CouldNotAnalyze ==
  CHOOSE a \in Analyses : a.description = Str("Could not analyze item.")

\* How a call of analyzeClothingImage can end: the parsed classification, the
\* placeholder after a transport error or a text JSON.parse rejects, and the
\* JSON value null.
Classifications ==
  { [kind |-> "ok", analysis |-> a] : a \in Analyses \ {CouldNotAnalyze} }
    \cup { [kind |-> "failed", analysis |-> CouldNotAnalyze],
           [kind |-> "null", analysis |-> CouldNotAnalyze] }

\* handleFileUpload(event) with n files chosen, up to the first await; the
\* button that opens the file dialog is disabled while isAnalyzing.
HandleFileUpload(n) ==
  /\ app.status = "mounted"
  /\ ~upload.isAnalyzing
  /\ uuids + n <= MaxUuids   \* bound: every file of the batch can get an id
  /\ upload' =
       IF n = 0
         THEN upload
         ELSE [isAnalyzing |-> TRUE,
               uploadProgress |-> [current |-> 1, total |-> n],
               files |-> StartBatch(n), i |-> 1, log |-> <<>>]
  /\ last' = Op("upload", <<>>, "", <<>>)
  /\ UNCHANGED <<messages, isLoading, rendered, requests, now, uuids,
                 wardrobe, favorites, storage, app, gen, norm>>

ChooseFiles == \E n \in 0..MaxFiles : HandleFileUpload(n)

\* The FileReader is done with file i: the data URL goes to
\* analyzeClothingImage, or the read failed and the catch block logs the name
\* of the file.
ReadSettles ==
  /\ upload.isAnalyzing
  /\ upload.files[upload.i].status = "reading"
  /\ \E read \in BOOLEAN :
       IF read
         THEN /\ upload' = [upload EXCEPT !.files[upload.i].status = "classifying"]
              /\ last' = Op("read", <<>>, "loaded", <<>>)
         ELSE /\ upload' = Advance(Settle(upload, "skipped", "", <<>>,
                              <<LogEntry("handleFileUpload", upload.i)>>))
              /\ last' = Op("read", <<>>, "error", <<>>)
  /\ UNCHANGED <<messages, isLoading, rendered, requests, now, uuids,
                 wardrobe, favorites, storage, app, gen, norm>>

\* analyzeClothingImage has resolved for file i: the item is built and handed
\* to onAddItem; building it from null throws, and the catch block logs the
\* name of the file.
AnalysisSettles ==
  /\ upload.isAnalyzing
  /\ upload.files[upload.i].status = "classifying"
  /\ \E outcome \in Classifications :
       IF outcome.kind = "null"
         THEN /\ upload' = Advance(Settle(upload, "skipped", "null", <<>>,
                              <<LogEntry("handleFileUpload", upload.i)>>))
              /\ last' = Op("analyze", <<>>, "null", <<>>)
              /\ UNCHANGED <<messages, isLoading, rendered, requests, now,
                             uuids, wardrobe, favorites, storage, app, gen,
                             norm>>
         ELSE /\ uuids' = uuids + 1
              /\ HandleAddItem(NewItem(UUID(uuids + 1), "data:image",
                                       outcome.analysis))
              /\ upload' = Advance(Settle(upload, "added", outcome.kind,
                              UUID(uuids + 1),
                              IF outcome.kind = "failed"
                                THEN <<LogEntry("analyzeClothingImage", 0)>>
                                ELSE <<>>))

(***************************************************************************)
(* OutfitGenerator.                                                        *)
(***************************************************************************)
\* The form as it is mounted: no occasion typed, nothing generated, no
\* request in flight.
GenIdle ==
  [occasion |-> <<>>, isGenerating |-> FALSE, suggestion |-> "none",
   requests |-> 0]

\* Mutant of GenerateOutfit: the test of the wardrobe is gone, the request
\* is issued whatever the wardrobe holds.
GenerateOutfitUnguarded(w) == [threw |-> "", requested |-> TRUE]

\* generateOutfit(wardrobe, occasion, notes) up to its await: the error it
\* throws before the try block, or the generateContent request it issues.
GenerateOutfit(w) ==
  IF Len(w) = 0 THEN [threw |-> "Wardrobe empty", requested |-> FALSE]
  ELSE IF PromptThrows(w) THEN [threw |-> "TypeError", requested |-> FALSE]
  ELSE [threw |-> "", requested |-> TRUE]

\* The guard of handleGenerate.
Declines(occasion, w) == Trim(occasion) = <<>> \/ Len(w) = 0

\* onChange of the occasion input: setOccasion(e.target.value)
SetOccasion ==
  /\ app.status = "mounted"
  /\ \E text \in Texts :
       /\ text # gen.occasion
       /\ gen' = [gen EXCEPT !.occasion = text]
       /\ last' = Op("type", text, "", <<>>)
  /\ UNCHANGED <<messages, isLoading, rendered, requests, now, uuids,
                 wardrobe, favorites, storage, app, upload, norm>>

\* handleGenerate(e), the submit handler of the form, up to the await of the
\* request; when generateOutfit throws, the catch block alerts and the
\* finally block clears the flag.  The submit button is disabled while
\* isGenerating.
HandleGenerate ==
  /\ app.status = "mounted"
  /\ ~gen.isGenerating
  /\ IF Declines(gen.occasion, wardrobe)
       THEN /\ UNCHANGED gen
            /\ last' = Op("generate", gen.occasion, "returned", <<>>)
       ELSE IF GenerateOutfit(wardrobe).requested
         THEN /\ gen' = [gen EXCEPT !.isGenerating = TRUE,
                                    !.suggestion = "none",
                                    !.requests = @ + 1]
              /\ last' = Op("generate", gen.occasion, "requested", <<>>)
         ELSE /\ gen' = [gen EXCEPT !.isGenerating = FALSE,
                                    !.suggestion = "none"]
              /\ last' = Op("generate", gen.occasion, "alert", <<>>)
  /\ UNCHANGED <<messages, isLoading, rendered, requests, now, uuids,
                 wardrobe, favorites, storage, app, upload, norm>>

\* The request of generateOutfit settles: the suggestion parsed from the
\* response, or the "Error" suggestion of its catch block; the visualization
\* resolves with null; the finally block clears the flag.
OutfitSettles ==
  /\ app.status = "mounted"
  /\ gen.requests > 0
  /\ \E outcome \in {"outfit", "error"} :
       /\ gen' = [gen EXCEPT !.isGenerating = FALSE, !.suggestion = outcome,
                             !.requests = @ - 1]
       /\ last' = Op("generated", gen.occasion, outcome, <<>>)
  /\ UNCHANGED <<messages, isLoading, rendered, requests, now, uuids,
                 wardrobe, favorites, storage, app, upload, norm>>

(***************************************************************************)
(* The normalizer of generateStylistResponse.                              *)
(***************************************************************************)
JNull == [t |-> "null", v |-> <<>>]

\* a ?? b
Coalesce(a, b) == IF a.t \in {"undefined", "null"} THEN b ELSE a

\* Elements of the arrays of a payload: an inspiration image, a shopping
\* entry and one of its links.  t tells an object from null.
Image(t, title, imageUrl, link) ==
  [t |-> t, title |-> title, imageUrl |-> imageUrl, link |-> link]

Link(t, label, url) == [t |-> t, label |-> label, url |-> url]

Shopping(t, name, priceRange, links) ==
  [t |-> t, name |-> name, priceRange |-> priceRange, links |-> links]

\* The JSON object parsed from the text of the response.
Parsed(message, selectedItemIds, inspirationImages, shopping, suggestions) ==
  [message |-> message, selectedItemIds |-> selectedItemIds,
   inspirationImages |-> inspirationImages, shopping |-> shopping,
   suggestions |-> suggestions]

\* `Look ${i + 1}` and `Item ${i + 1}`, for the i-th element counted from 1
Numbered(word, i) == [t |-> "string", v |-> <<word, i>>]

\* x.map(...) throws: x is not an array, or the callback reads a property of
\* a null element.
MapThrows(x) ==
  ~IsArray(x) \/ \E i \in 1..Len(x.v) : x.v[i].t = "null"

\* The callback with the two addresses exchanged.
PinterestLookSwapped(p, i) ==
  [title |-> JOr(p.title, Numbered("Look", i)),
   description |-> Str(""),
   previewImageUrl |-> JOr(p.link, Str("")),
   pinterestUrl |-> JOr(p.imageUrl, Str(""))]

\* The callback of parsed.inspirationImages.map
PinterestLook(p, i) ==
  [title |-> JOr(p.title, Numbered("Look", i)),
   description |-> Str(""),
   previewImageUrl |-> JOr(p.imageUrl, Str("")),
   pinterestUrl |-> JOr(p.link, Str(""))]

\* The callback of item.links?.map
ShoppingOption(ln, item) ==
  [storeName |-> JOr(ln.label, Str("Store")),
   url |-> ln.url,
   price |-> JOr(item.priceRange, Str("N/A")),
   type |-> "online"]

\* The callback of parsed.shopping.map
MissingItem(item, i, clock) ==
  [id |-> <<"missing", i - 1, clock>>,
   name |-> JOr(item.name, Numbered("Item", i)),
   pinterestQuery |-> JOr(item.name, Str("")),
   shoppingOptions |->
     IF item.links.t \in {"undefined", "null"}
       THEN <<>>
       ELSE [j \in 1..Len(item.links.v) |->
               ShoppingOption(item.links.v[j], item)]]

\* The try block of generateStylistResponse from the parsed object on throws
NormalizeThrows(parsed) ==
  LET inspo == Coalesce(parsed.inspirationImages, Arr(<<>>))
      shop == Coalesce(parsed.shopping, Arr(<<>>))
  IN \/ MapThrows(inspo)
     \/ MapThrows(shop)
     \/ \E i \in 1..Len(shop.v) :
          /\ shop.v[i].links.t \notin {"undefined", "null"}
          /\ MapThrows(shop.v[i].links)

\* Mutant of OutfitCardData: the id of the card carries the time of the
\* response, `generated-outfit-${Date.now()}`.
OutfitCardDataStampedId(parsed, clock) ==
  LET inspo == Coalesce(parsed.inspirationImages, Arr(<<>>))
      shop == Coalesce(parsed.shopping, Arr(<<>>))
  IN [id |-> CASE clock = 0 -> "generated-outfit-0"
               [] clock = 1 -> "generated-outfit-1"
               [] OTHER -> "generated-outfit-later",
      title |-> "Your Outfit",
      description |-> parsed.message,
      matchScore |-> 100,
      selectedItemIds |-> Coalesce(parsed.selectedItemIds, Arr(<<>>)),
      missingItems |->
        Arr([i \in 1..Len(shop.v) |-> MissingItem(shop.v[i], i, clock)]),
      pinterestLooks |->
        Arr([i \in 1..Len(inspo.v) |-> PinterestLook(inspo.v[i], i)]),
      reasoning |-> JOr(parsed.message, Str(""))]

\* The OutfitCardData built from the parsed object.
OutfitCardData(parsed, clock) ==
  LET inspo == Coalesce(parsed.inspirationImages, Arr(<<>>))
      shop == Coalesce(parsed.shopping, Arr(<<>>))
  IN [id |-> "generated-outfit",
      title |-> "Your Outfit",
      description |-> parsed.message,
      matchScore |-> 100,
      selectedItemIds |-> Coalesce(parsed.selectedItemIds, Arr(<<>>)),
      missingItems |->
        Arr([i \in 1..Len(shop.v) |-> MissingItem(shop.v[i], i, clock)]),
      pinterestLooks |->
        Arr([i \in 1..Len(inspo.v) |-> PinterestLook(inspo.v[i], i)]),
      reasoning |-> JOr(parsed.message, Str(""))]

\* What generateContent can come back with: a text that parses to an object
\* from its first brace on ("json"), a text with a brace that JSON.parse
\* rejects ("unparsable"), a text without any brace ("prose"), for which
\* the literal "{}" is parsed instead, and a transport error.
Reply(kind, parsed) == [kind |-> kind, parsed |-> parsed]

\* The StylistResponse generateStylistResponse resolves with.
StylistResponse(reply, clock) ==
  IF reply.kind \in {"unparsable", "transport"}
       \/ NormalizeThrows(reply.parsed)
    THEN [mode |-> "wardrobe_outfit",
          message |-> Str("Network issue occurred."),
          outfits |-> <<>>,
          suggestions |-> Arr(<<"Try again">>)]
    ELSE [mode |-> "wardrobe_outfit",
          message |-> reply.parsed.message,
          outfits |-> <<OutfitCardData(reply.parsed, clock)>>,
          suggestions |-> Coalesce(reply.parsed.suggestions, Arr(<<>>))]

\* The values the properties of a payload are drawn from: as the schema
\* declares them, missing, null, and of another type.
SelectedItemIdsValues ==
  { Undefined, JNull, Arr(<<>>), Arr(<<UUID(1)>>), Str("item-1") }

InspirationImagesValues ==
  { Undefined, Arr(<<>>),
    Arr(<<Image("object", Str("A"), Str("u1"), Str("l1"))>>),
    Arr(<<Image("object", Str("A"), Str("u1"), Str("l1")),
          Image("object", Undefined, Undefined, Undefined)>>),
    Arr(<<Image("null", Undefined, Undefined, Undefined)>>),
    Str("none") }

LinksValues ==
  { Undefined,
    Arr(<<Link("object", Str("Amazon"), Str("a1"))>>),
    Arr(<<Link("object", Str("Amazon"), Str("a1")),
          Link("object", Undefined, Str("a2")),
          Link("object", Str(""), Str("a3"))>>) }

ShoppingValues ==
  { Undefined, Arr(<<>>), Str("none"),
    Arr(<<Shopping("object", Undefined, Undefined, Undefined),
          Shopping("object", Str("Shoes"), Undefined,
                   Arr(<<Link("object", Str("Amazon"), Str("a1"))>>))>>) }
    \cup { Arr(<<Shopping("object", Str("Shoes"), Undefined, links)>>) :
             links \in LinksValues }

Replies ==
  { Reply("json", Parsed(message, selected, inspo, shop, Undefined)) :
      message \in {Undefined, Str("Try the blue shirt.")},
      selected \in SelectedItemIdsValues,
      inspo \in InspirationImagesValues,
      shop \in ShoppingValues }
    \cup { Reply(kind, Parsed(Undefined, Undefined, Undefined, Undefined,
                              Undefined)) :
             kind \in {"unparsable", "prose", "transport"} }

\* Nothing has been normalized yet.
NormIdle ==
  [called |-> FALSE,
   reply |-> Reply("transport", Parsed(Undefined, Undefined, Undefined,
                                       Undefined, Undefined)),
   response |-> StylistResponse(
                  Reply("transport", Parsed(Undefined, Undefined, Undefined,
                                            Undefined, Undefined)), 0)]

\* generateStylistResponse turns a reply of the model into its response.
Normalize ==
  \E reply \in Replies :
    /\ norm' = [called |-> TRUE, reply |-> reply,
                response |-> StylistResponse(reply, now)]
    /\ last' = Op("normalize", <<>>, reply.kind, <<>>)
    /\ UNCHANGED <<messages, isLoading, rendered, requests, now, uuids,
                   wardrobe, favorites, storage, app, upload, gen>>

(***************************************************************************)
(* What StylistChat renders for a message, and OutfitCard for a card.     *)
(* A render is a function of the state, redone after every change of it.  *)
(* The data of a message is whatever the conversation document held: the  *)
(* card of the current schema in outfits[0], the legacy inspirationImages *)
(* and shopping arrays, or a mix of both.                                  *)
(***************************************************************************)
\* The rich content of a stored stylist message.  data.outfits absent and
\* data.outfits empty are the same to the rendering, which reads outfits[0]
\* only when the array exists and has an element.
StoredData(outfits, selectedItemIds, inspirationImages, shopping) ==
  [present |-> TRUE, mode |-> "wardrobe_outfit", message |-> <<>>,
   outfits |-> outfits, suggestions |-> <<>>,
   selectedItemIds |-> selectedItemIds,
   inspirationImages |-> inspirationImages, shopping |-> shopping]

\* An outfit card as stored.
StoredCard(id, reasoning, selectedItemIds, missingItems, pinterestLooks) ==
  [id |-> id, title |-> "Your Outfit", description |-> reasoning,
   matchScore |-> 100, selectedItemIds |-> selectedItemIds,
   missingItems |-> missingItems, pinterestLooks |-> pinterestLooks,
   reasoning |-> reasoning]

\* data?.outfits && data.outfits.length > 0
HasOutfit(data) == data.present /\ Len(data.outfits) > 0

\* x && x.length > 0, for x undefined or an array
NonEmpty(x) == JTruthy(x) /\ Len(x.v) > 0

\* Array.isArray(x) ? x : []
ArrayOrEmpty(x) == IF IsArray(x) THEN x.v ELSE <<>>

\* Mutant of SelectedItems: the ids no item answers to are kept as blanks.
SelectedItemsKeepsUnknown(data, items) ==
  [k \in 1..Len(ArrayOrEmpty(data.selectedItemIds)) |->
     ArrayOrEmpty(data.selectedItemIds)[k]]

\* wardrobe.filter((item) => selectedIds.includes(item.id)), as identifiers
SelectedItems(data, items) ==
  LET selectedIds == ArrayOrEmpty(data.selectedItemIds)
      kept == SelectSeq(items, LAMBDA item :
                \E k \in 1..Len(selectedIds) : selectedIds[k] = item.id)
  IN [k \in 1..Len(kept) |-> kept[k].id]

\* What OutfitCard returns: null, or the card with the items it shows.
NoCard == [shown |-> FALSE, selectedItems |-> <<>>, isFavorite |-> FALSE]

OutfitCardView(data, items, isFavorite) ==
  IF /\ Len(SelectedItems(data, items)) = 0
     /\ Len(ArrayOrEmpty(data.missingItems)) = 0
     /\ Len(ArrayOrEmpty(data.pinterestLooks)) = 0
    THEN NoCard
    ELSE [shown |-> TRUE, selectedItems |-> SelectedItems(data, items),
          isFavorite |-> isFavorite]

\* The two conditions under which StylistChat mounts an OutfitCard for a
\* stylist message.
CardMounted(data) ==
  /\ HasOutfit(data)
  /\ \/ NonEmpty(data.outfits[1].selectedItemIds)
     \/ /\ ~NonEmpty(data.outfits[1].selectedItemIds)
        /\ \/ NonEmpty(data.outfits[1].missingItems)
           \/ NonEmpty(data.outfits[1].pinterestLooks)

\* favorites.some((f) => f.id === outfit.id)
IsFavorite(outfit, favs) == \E i \in 1..Len(favs) : favs[i].id = outfit.id

\* Where a section of the message takes its entries from: the field of
\* outfits[0], the legacy field of the data, or nowhere (not rendered).
Section(data, field, legacy) ==
  IF HasOutfit(data) /\ NonEmpty(data.outfits[1][field]) THEN "current"
  ELSE IF /\ ~(HasOutfit(data) /\ JTruthy(data.outfits[1][field]))
          /\ IsArray(legacy) /\ Len(legacy.v) > 0 THEN "legacy"
  ELSE "none"

\* What StylistChat renders under the bubble of a stylist message.
MessageView(msg, items, favs) ==
  IF ~msg.data.present
    THEN [card |-> NoCard, selected |-> "none", looks |-> "none",
          shopping |-> "none"]
    ELSE [card |-> IF CardMounted(msg.data)
                     THEN OutfitCardView(msg.data.outfits[1], items,
                            IsFavorite(msg.data.outfits[1], favs))
                     ELSE NoCard,
          selected |-> IF /\ HasOutfit(msg.data)
                          /\ NonEmpty(msg.data.outfits[1].selectedItemIds)
                         THEN "current" ELSE "none",
          looks |-> Section(msg.data, "pinterestLooks",
                            msg.data.inspirationImages),
          shopping |-> Section(msg.data, "missingItems", msg.data.shopping)]

\* The heart button of the card shown under message i.
ClickHeart ==
  \E i \in 1..Len(messages) :
    /\ MessageView(messages[i], wardrobe, favorites).card.shown
    /\ HandleToggleFavorite(messages[i].data.outfits[1])

\* The values the fields of a stored card are drawn from: absent, empty and
\* filled.  The identifiers selected are those of the first items uploaded
\* and one that the wardrobe never holds.
StoredSelected ==
  { Undefined, Arr(<<>>), Arr(<<UUID(1)>>),
    Arr(<<UUID(2), UUID(MaxUuids + 1), UUID(1)>>) }

StoredMissing ==
  { Undefined, Arr(<<>>),
    Arr(<<MissingItem(Shopping("object", Str("Shoes"), Undefined,
                               Undefined), 1, 0)>>) }

StoredLooks ==
  { Undefined, Arr(<<>>),
    Arr(<<PinterestLook(Image("object", Str("A"), Str("u1"), Str("l1")),
                        1)>>) }

StoredCards ==
  { StoredCard("generated-outfit", reasoning, selected, missing, looks) :
      reasoning \in {Str(""), Str("Try the blue shirt.")},
      selected \in StoredSelected,
      missing \in StoredMissing,
      looks \in StoredLooks }

\* The legacy fields a stored response carries besides its outfits: none,
\* all three, or the inspiration images alone.
StoredLegacy ==
  { [selectedItemIds |-> Undefined, inspirationImages |-> Undefined,
     shopping |-> Undefined],
    [selectedItemIds |-> Arr(<<UUID(1)>>),
     inspirationImages |->
       Arr(<<Image("object", Str("A"), Str("u1"), Str("l1"))>>),
     shopping |->
       Arr(<<Shopping("object", Str("Shoes"), Undefined, Undefined)>>)],
    [selectedItemIds |-> Undefined,
     inspirationImages |->
       Arr(<<Image("object", Str("A"), Str("u1"), Str("l1"))>>),
     shopping |-> Undefined] }

StoredDatas ==
  { StoredData(outfits, legacy.selectedItemIds, legacy.inspirationImages,
               legacy.shopping) :
      outfits \in { <<>> } \cup { <<c>> : c \in StoredCards },
      legacy \in StoredLegacy }

\* A stylist message of the conversation document.
StoredMessage(n, data) == Message(<<"stored", n>>, "stylist", <<>>, data, 0)

\* The data of a message that generateStylistResponse resolved with at the
\* given time, as the conversation document gives it back.
ProducedData(parsed, clock) ==
  StoredData(StylistResponse(Reply("json", parsed), clock).outfits,
             Undefined, Undefined, Undefined)

\* Two payloads of the stylist, for items of the wardrobe.
BlueShirtPayload ==
  Parsed(Str("Try the blue shirt."), Arr(<<UUID(1)>>),
         Arr(<<Image("object", Str("A"), Str("u1"), Str("l1"))>>),
         Undefined, Undefined)

LoafersPayload(shopping) ==
  Parsed(Str("Linen and loafers."), Arr(<<UUID(2)>>), Undefined, shopping,
         Undefined)

\* The conversation documents the chat is opened over: one stylist message
\* with any of the data above, or two messages with the responses
\* generateStylistResponse gave to two submissions.
StoredLogs ==
  { <<StoredMessage(1, data)>> : data \in StoredDatas }
    \cup
  { <<StoredMessage(1, ProducedData(BlueShirtPayload, 0)),
      StoredMessage(2, ProducedData(LoafersPayload(shopping), 1))>> :
      shopping \in { Undefined,
                     Arr(<<Shopping("object", Str("Shoes"), Undefined,
                                    Undefined)>>) } }

\* StylistChat mounts: the initializer of the messages state parses the
\* conversation document.
OpenChat ==
  /\ last.op = "init"
  /\ \E log \in StoredLogs :
       /\ messages' = log
       /\ rendered' = [isLoading |-> FALSE, messages |-> log]
  /\ last' = Op("open", <<>>, "", <<>>)
  /\ UNCHANGED <<isLoading, requests, now, uuids, wardrobe, favorites,
                 storage, app, upload, gen, norm>>

(***************************************************************************)
(* Specifications.                                                         *)
(***************************************************************************)
\* The wardrobes StylistChat can be mounted over in the runs of the
\* conversation: none uploaded yet, or one upload whose classification came
\* back with a style that is not an array.
ChatWardrobes ==
  { <<>> } \cup
  { <<NewItem(UUID(0), "data:image", a)>> : a \in { x \in Analyses : ~IsArray(x.style) /\ JTruthy(x.style) } }

\* The state after the first mount with nothing persisted: the seed message,
\* an empty wardrobe, no favorites.
Init ==
  /\ now = 0
  /\ messages = <<Message(InitId, "stylist", SeedContent, NoData, 0)>>
  /\ isLoading = FALSE
  /\ rendered = [isLoading |-> FALSE,
                 messages |-> <<Message(InitId, "stylist", SeedContent, NoData, 0)>>]
  /\ requests = {}
  /\ uuids = 0
  /\ wardrobe = <<>>
  /\ favorites = <<>>
  /\ storage = [wardrobe |-> NoDoc, favorites |-> NoDoc]
  /\ app = [status |-> "mounted", effects |-> {"wardrobe", "favorites"},
            favoritesType |-> "array"]
  /\ upload = UploadIdle
  /\ gen = GenIdle
  /\ norm = NormIdle
  /\ last = Op("init", <<>>, "", <<>>)

ChatNext ==
  \/ SubmitForm
  \/ ClickSuggestion
  \/ RequestCompletes
  \/ ClickClear
  \/ Render
  \/ Tick

StoreNext ==
  \/ AddNewItem
  \/ ClickRemove
  \/ ClickFavorite

\* One session of the application, from its first mount to the closing of
\* the page or the crash of the component tree.
Next ==
  \/ ChatNext
  \/ StoreNext
  \/ PersistWardrobe
  \/ PersistFavorites
  \/ ChooseFiles
  \/ ReadSettles
  \/ AnalysisSettles
  \/ SetOccasion
  \/ HandleGenerate
  \/ OutfitSettles
  \/ Normalize

Spec == Init /\ [][Next]_vars

\* The conversation alone, over the wardrobes an upload can have left.
ChatInit ==
  /\ now = 0
  /\ messages = <<Message(InitId, "stylist", SeedContent, NoData, 0)>>
  /\ isLoading = FALSE
  /\ rendered = [isLoading |-> FALSE,
                 messages |-> <<Message(InitId, "stylist", SeedContent, NoData, 0)>>]
  /\ requests = {}
  /\ uuids = 0
  /\ wardrobe \in ChatWardrobes
  /\ favorites = <<>>
  /\ storage = [wardrobe |-> NoDoc, favorites |-> NoDoc]
  /\ app = [status |-> "mounted", effects |-> {"wardrobe", "favorites"},
            favoritesType |-> "array"]
  /\ upload = UploadIdle
  /\ gen = GenIdle
  /\ norm = NormIdle
  /\ last = Op("init", <<>>, "", <<>>)

ChatSpec == ChatInit /\ [][ChatNext]_vars

\* The collections alone.
StoreSpec == Init /\ [][StoreNext]_vars

\* The collections and their documents, from the opening of the page over
\* whatever the two keys hold.
PersistInit ==
  /\ now = 0
  /\ messages = <<Message(InitId, "stylist", SeedContent, NoData, 0)>>
  /\ isLoading = FALSE
  /\ rendered = [isLoading |-> FALSE,
                 messages |-> <<Message(InitId, "stylist", SeedContent, NoData, 0)>>]
  /\ requests = {}
  /\ uuids = 0
  /\ wardrobe = <<>>
  /\ favorites = <<>>
  /\ storage \in [wardrobe : WardrobeDocs, favorites : FavoritesDocs]
  /\ app = [status |-> "closed", effects |-> {}, favoritesType |-> "array"]
  /\ upload = UploadIdle
  /\ gen = GenIdle
  /\ norm = NormIdle
  /\ last = Op("init", <<>>, "", <<>>)

\* No effect is waiting to run: React runs the effects of a render before it
\* dispatches the next click.
Flushed == app.effects = {}

\* The uploads and the cards of the runs over the documents: a
\* classification that came back whole and one that came back empty, the
\* card that is stored and one that is not.
PersistAnalyses ==
  { a \in Analyses : a.category \in {Str("Shirt"), Undefined} }

PersistOutfits == { o \in Outfits : o.id \in {"look-2", "look-3"} }

PersistNext ==
  \/ Mount
  \/ ShowFavorites
  \/ Flushed /\ AddItemOf(PersistAnalyses)
  \/ Flushed /\ ClickRemove
  \/ Flushed /\ ToggleOf(PersistOutfits)
  \/ PersistWardrobe
  \/ PersistFavorites

PersistSpec == PersistInit /\ [][PersistNext]_vars

\* The uploads alone.
UploadNext ==
  \/ ChooseFiles
  \/ ReadSettles
  \/ AnalysisSettles

UploadSpec == Init /\ [][UploadNext]_vars

\* The uploads with the user removing items while a batch is under way.
UploadEditNext ==
  \/ UploadNext
  \/ ClickRemove

UploadEditSpec == Init /\ [][UploadEditNext]_vars

\* The uploads when every read and every classification that has been
\* started comes to an end: the FileReader fires loadend or error, the
\* promise of analyzeClothingImage settles.
UploadLiveSpec ==
  /\ Init
  /\ [][UploadNext]_vars
  /\ WF_vars(ReadSettles)
  /\ WF_vars(AnalysisSettles)

\* The outfit generator over a wardrobe that uploads and removes change.
GenNext ==
  \/ SetOccasion
  \/ HandleGenerate
  \/ OutfitSettles
  \/ AddNewItem
  \/ ClickRemove

GenSpec == Init /\ [][GenNext]_vars

\* The chat opening over a stored conversation, with the wardrobe and the
\* favorites changing under it.
ViewInit ==
  /\ now = 0
  /\ messages = <<>>
  /\ isLoading = FALSE
  /\ rendered = [isLoading |-> FALSE, messages |-> <<>>]
  /\ requests = {}
  /\ uuids = 0
  /\ wardrobe = <<>>
  /\ favorites = <<>>
  /\ storage = [wardrobe |-> NoDoc, favorites |-> NoDoc]
  /\ app = [status |-> "mounted", effects |-> {"wardrobe", "favorites"},
            favoritesType |-> "array"]
  /\ upload = UploadIdle
  /\ gen = GenIdle
  /\ norm = NormIdle
  /\ last = Op("init", <<>>, "", <<>>)

ViewAnalyses == { a \in Analyses : a.category = Str("Shirt") }

ViewNext ==
  \/ OpenChat
  \/ AddItemOf(ViewAnalyses)
  \/ ClickRemove
  \/ ClickHeart

ViewSpec == ViewInit /\ [][ViewNext]_vars

\* The normalizer alone, at any time of the clock.
NormNext ==
  \/ Normalize
  \/ Tick

NormSpec == Init /\ [][NormNext]_vars

(***************************************************************************)
(* Vocabulary of the properties.                                           *)
(***************************************************************************)
LastOf(seq) == seq[Len(seq)]

IsPrefix(s, t) == Len(s) <= Len(t) /\ SubSeq(t, 1, Len(s)) = s

RECURSIVE IsSubsequence(_, _)
IsSubsequence(s, t) ==
  IF s = <<>> THEN TRUE
  ELSE IF t = <<>> THEN FALSE
  ELSE IF Head(s) = Head(t) THEN IsSubsequence(Tail(s), Tail(t))
  ELSE IsSubsequence(s, Tail(t))

Blank(text) == Trim(text) = <<>>

\* The log is the single seed message a clear leaves.
IsSeedLog(log) ==
  /\ Len(log) = 1
  /\ log[1].id = InitId
  /\ log[1].role = "stylist"

Issued == requests' \ requests

Retired == requests \ requests'

IdsOf(seq) == { seq[i].id : i \in 1..Len(seq) }

C2_BlankOrInFlightIsNoOp ==
  [][ (last'.op = "send" /\ (Blank(last'.text) \/ requests # {}))
        => (messages' = messages /\ requests' = requests) ]_vars

\* C3: at most one conversational AI request is outstanding (a call whose
\* prompt threw never reached the service and does not count).
C3_AtMostOneOutstanding == Cardinality({ r \in requests : ~r.threw }) <= 1

\* C4: when the AI request fails (transport error or unparsable response),
\* the stylist message appended for it is the "trouble connecting" fallback.
C4_FailureAppendsTroubleConnecting ==
  [][ (last'.op = "complete" /\ last'.outcome \in {"transport", "unparsable"})
        => LastOf(messages').content = TroubleConnecting ]_vars

\* C5: a confirmed clear leaves exactly one seed stylist message, a declined
\* clear leaves the log unchanged, and a log that is the single seed message
\* stays that message until the next accepted submission.
C5_ClearedLogStaysSeed ==
  [][ /\ last'.op = "clear" => IsSeedLog(messages')
      /\ last'.op = "decline" => messages' = messages
      /\ (IsSeedLog(messages) /\ Issued = {}) => IsSeedLog(messages')
    ]_vars

\* C6: every step other than a confirmed clear leaves the log unchanged or
\* extends it at the end.
C6_AppendOnly ==
  [][ last'.op # "clear" => IsPrefix(messages, messages') ]_vars

\* A clear was declined over a log that two appends had extended.
C6_Witness ==
  /\ last.op = "decline"
  /\ Len(messages) >= 3
  /\ messages[1].content = SeedContent

\* C7: the timestamps of the log are non-decreasing in log order.
C7_TimestampsNonDecreasing ==
  \A i \in 1..Len(messages) : \A j \in i..Len(messages) :
    messages[i].timestamp <= messages[j].timestamp

\* A log cleared while a request was in flight, answered at a later time.
C7_Witness ==
  /\ Len(messages) >= 2
  /\ messages[1].content = ClearedContent
  /\ messages[1].timestamp > 0
  /\ messages[1].timestamp < LastOf(messages).timestamp

(***************************************************************************)
(* The collections (checked under StoreSpec).                              *)
(***************************************************************************)
\* C8: a toggle flips the membership of outfit.id in the favorites and of no
\* other id, and a second toggle of the same id gives back the original set
\* of ids.
C8_ToggleFlipsMembership ==
  [][ last'.op = "toggle" =>
        LET id == last'.id[1]
        IN /\ (id \in IdsOf(favorites)) # (id \in IdsOf(favorites'))
           /\ IdsOf(favorites') \ {id} = IdsOf(favorites) \ {id}
           /\ \A o \in Outfits :
                o.id = id =>
                  IdsOf(ToggleFavoriteUpdater(favorites', o)) = IdsOf(favorites)
    ]_vars

\* A toggle has removed a favorite and left another one in place.
C8_Witness ==
  /\ last.op = "toggle"
  /\ Len(favorites) = 1
  /\ last.id[1] \notin IdsOf(favorites)

\* C9: add(item) puts the item in front of the previous collection, which
\* keeps its order.
C9_AddInsertsAtFront ==
  [][ last'.op = "add" =>
        /\ Len(wardrobe') = Len(wardrobe) + 1
        /\ Head(wardrobe').id = last'.id
        /\ Tail(wardrobe') = wardrobe ]_vars

\* An item was added in front of an item already there.
C9_Witness ==
  /\ last.op = "add"
  /\ Len(wardrobe) = 2
  /\ wardrobe[1].id = last.id

\* C10: remove(id) removes the items with that id and keeps the others in
\* their order; with no such item the wardrobe is unchanged.
C10_RemoveKeepsOthersInOrder ==
  [][ last'.op = "remove" =>
        /\ last'.id \notin IdsOf(wardrobe')
        /\ IsSubsequence(wardrobe', wardrobe)
        /\ Len(wardrobe') =
             Cardinality({ i \in 1..Len(wardrobe) : wardrobe[i].id # last'.id })
        /\ (last'.id \notin IdsOf(wardrobe) => wardrobe' = wardrobe) ]_vars

\* The older of two items was removed and the newer one is left.
C10_Witness ==
  /\ last.op = "remove"
  /\ last.id = UUID(1)
  /\ uuids = 2
  /\ Len(wardrobe) = 1
  /\ wardrobe[1].id = UUID(2)

(***************************************************************************)
(* The collections and their documents (checked under PersistSpec).        *)
(***************************************************************************)
\* A required property of a stored ClothingItem is missing or of the wrong
\* type, or the entry is not an object at all.
Malformed(e) ==
  \/ e.t # "object"
  \/ ~JTruthy(e.id)
  \/ e.image.t # "string"
  \/ e.category.t # "string"
  \/ e.color.t # "string"
  \/ ~IsArray(e.season)
  \/ ~IsArray(e.style)

\* An item as the type ClothingItem declares it; the description is optional.
WellFormed(item) ==
  /\ item.id # <<>>
  /\ item.category.t = "string" /\ JTruthy(item.category)
  /\ item.color.t = "string" /\ JTruthy(item.color)
  /\ IsArray(item.season)
  /\ IsArray(item.style)
  /\ item.description.t \in {"string", "undefined"}

\* The item is what load makes of the malformed entry e: what e has is kept,
\* what it lacks is defaulted, and a missing id is one no other entry has.
Repaired(item, e, doc) ==
  /\ IF JTruthy(e.id)
       THEN item.id = e.id.v
       ELSE /\ item.id # <<>>
            /\ \A k \in 1..Len(doc.v) : doc.v[k].id.v # item.id
  /\ item.category = (IF JTruthy(e.category) THEN e.category ELSE Str("Unknown"))
  /\ item.color = (IF JTruthy(e.color) THEN e.color ELSE Str("Unknown"))
  /\ item.season = (IF IsArray(e.season) THEN e.season ELSE Arr(<<>>))
  /\ item.style = (IF IsArray(e.style) THEN e.style ELSE Arr(<<>>))

C12_PersistedBeforeReturn ==
  [][ /\ last'.op \in {"add", "remove"}
           => storage'.wardrobe = StringifyWardrobe(wardrobe')
      /\ last'.op = "toggle"
           => storage'.favorites = StringifyFavorites("array", favorites')
    ]_vars

\* C13: a write to storage that fails leaves both collections in memory as
\* they were and the application running.
C13_StorageFailureIsCaught ==
  [][ (last'.op = "persist" /\ last'.outcome = "quota")
        => /\ wardrobe' = wardrobe
           /\ favorites' = favorites
           /\ app'.status = "mounted" ]_vars

\* C14: the load of a stored array with exactly one malformed entry yields
\* as many items as the array has entries, the malformed entry repaired and
\* every other entry as it was stored.
C14_LoadRepairsMalformedEntry ==
  [][ ( /\ last'.op = "mount"
        /\ storage.wardrobe.t = "array"
        /\ Cardinality({ i \in 1..Len(storage.wardrobe.v) :
                           Malformed(storage.wardrobe.v[i]) }) = 1 )
        => /\ Len(wardrobe') = Len(storage.wardrobe.v)
           /\ \A i \in 1..Len(storage.wardrobe.v) :
                IF Malformed(storage.wardrobe.v[i])
                  THEN Repaired(wardrobe'[i], storage.wardrobe.v[i],
                                storage.wardrobe)
                  ELSE StringifyItem(wardrobe'[i]) = storage.wardrobe.v[i]
    ]_vars

\* C15: a reload over the stored document of a wardrobe whose items are all
\* well-formed yields that wardrobe again, item for item.
C15_RoundTrip ==
  [][ ( /\ last'.op = "mount"
        /\ app.status = "mounted"
        /\ storage.wardrobe = StringifyWardrobe(wardrobe)
        /\ \A i \in 1..Len(wardrobe) : WellFormed(wardrobe[i]) )
        => wardrobe' = wardrobe ]_vars

\* C16: the load of a document that cannot be parsed or is not an array
\* yields the empty collection, for the wardrobe and for the favorites, and
\* the application is mounted.
C16_UnusableDocumentLoadsEmpty ==
  [][ last'.op = "mount"
        => /\ storage.wardrobe.t # "array" => wardrobe' = <<>>
           /\ storage.favorites.t # "array"
                => (favorites' = <<>> /\ app'.favoritesType = "array")
           /\ app'.status = "mounted" ]_vars

(***************************************************************************)
(* The upload of a batch (checked under UploadSpec).                       *)
(***************************************************************************)
\* The files of a batch whose classification failed.
FailedFiles(files) ==
  { k \in 1..Len(files) : files[k].classified \in {"failed", "null"} }

InProgress(file) == file.status \in {"reading", "classifying"}

\* C17: when a batch ends in which the classification of exactly one file
\* failed and every other file was classified, the wardrobe holds exactly one
\* item for each classified file and none for the failed one, the log names
\* the failed file, and the progress stood at total/total.
C17_FailedFileIsLeftOut ==
  [][ ( /\ upload.isAnalyzing
        /\ ~upload'.isAnalyzing
        /\ Cardinality(FailedFiles(upload'.files)) = 1
        /\ \A k \in 1..Len(upload'.files) :
             k \notin FailedFiles(upload'.files)
               => upload'.files[k].classified = "ok" )
        => /\ \A k \in 1..Len(upload'.files) :
                IF k \in FailedFiles(upload'.files)
                  THEN /\ upload'.files[k].item = <<>>
                       /\ \E e \in 1..Len(upload'.log) : upload'.log[e].file = k
                  ELSE Cardinality({ i \in 1..Len(wardrobe') :
                         wardrobe'[i].id = upload'.files[k].item }) = 1
           /\ Cardinality({ i \in 1..Len(wardrobe') :
                \E k \in 1..Len(upload'.files) :
                  wardrobe'[i].id = upload'.files[k].item })
                = Len(upload'.files) - 1
           /\ upload.uploadProgress =
                [current |-> Len(upload.files), total |-> Len(upload.files)]
    ]_vars

\* C18: at most one file of the batch is being read or classified, and a
\* file has left the waiting state only if the file before it is through.
C18_OneFileAtATime ==
  /\ Cardinality({ k \in 1..Len(upload.files) :
                     InProgress(upload.files[k]) }) <= 1
  /\ \A k \in 1..Len(upload.files) :
       (k < Len(upload.files) /\ upload.files[k + 1].status # "waiting")
         => upload.files[k].status \in {"added", "skipped"}

\* The second of three files is being classified: the first is in the
\* wardrobe, the third has not been touched.
C18_Witness ==
  /\ Len(upload.files) = 3
  /\ upload.files[1].status = "added"
  /\ upload.files[2].status = "classifying"
  /\ upload.files[3].status = "waiting"
  /\ upload.uploadProgress = [current |-> 2, total |-> 3]

\* The place of a status in the life of a file of the batch.
Stage(status) ==
  CASE status = "waiting" -> 0
    [] status = "reading" -> 1
    [] status = "classifying" -> 2
    [] OTHER -> 3

Through(files) ==
  \A k \in 1..Len(files) : files[k].status \in {"added", "skipped"}

\* One step of a batch under way: the progress stays or goes up by one and
\* stays within the total, stands at the file being worked on, and no file
\* goes back to an earlier stage or skips its turn.
BatchStep ==
  upload.isAnalyzing =>
    /\ Len(upload'.files) = Len(upload.files)
    /\ \A k \in 1..Len(upload.files) :
         /\ Stage(upload'.files[k].status) >= Stage(upload.files[k].status)
         /\ upload'.files[k].status # "waiting" /\ k > 1
              => Stage(upload'.files[k - 1].status) = 3
    /\ upload'.isAnalyzing
         => /\ upload'.uploadProgress.total = Len(upload.files)
            /\ upload'.uploadProgress.current
                 \in { upload.uploadProgress.current,
                       upload.uploadProgress.current + 1 }
            /\ upload'.uploadProgress.current <= Len(upload.files)
            /\ upload'.files[upload'.uploadProgress.current].status
                 \in {"reading", "classifying"}
    /\ ~upload'.isAnalyzing
         => /\ upload.uploadProgress.current = Len(upload.files)
            /\ upload'.uploadProgress = NoProgress
            /\ Through(upload'.files)

\* C27: when every read and every classification comes to an end, a batch
\* of n files comes to an end: every file is taken once, in the order of the
\* input, the progress goes through 1..n in order and never exceeds the
\* total, and after the last file isAnalyzing is false and the progress is
\* cleared.
C27_UploadFinishes ==
  /\ [][BatchStep]_vars
  /\ [][~upload.isAnalyzing /\ upload'.isAnalyzing
          => upload'.uploadProgress
               = [current |-> 1, total |-> Len(upload'.files)]]_vars
  /\ \A n \in 1..(MaxFiles + 1) :
       (upload.isAnalyzing /\ Len(upload.files) = n)
         ~> (/\ ~upload.isAnalyzing
             /\ upload.uploadProgress = NoProgress
             /\ Len(upload.files) = n
             /\ Through(upload.files))

\* A batch of three files is through although its second file could not be
\* read: the third file was taken after it.
C27_Witness ==
  /\ ~upload.isAnalyzing
  /\ upload.uploadProgress = NoProgress
  /\ Len(upload.files) = 3
  /\ upload.files[1].status = "added"
  /\ upload.files[2].status = "skipped"
  /\ upload.files[3].status = "added"

\* C29: no update is lost when removes interleave with the adds of a batch:
\* an add puts its new item, under an identifier never used before, on top
\* of the wardrobe as it is then, so that no removed item comes back; a
\* remove takes out its item alone; nothing else changes the wardrobe.
C29_NoLostUpdate ==
  [][/\ last'.op = "add"
          => /\ IdsOf(wardrobe') = IdsOf(wardrobe) \cup {last'.id}
             /\ Len(wardrobe') = Len(wardrobe) + 1
             /\ last'.id = UUID(uuids')
             /\ uuids' = uuids + 1
     /\ last'.op = "remove"
          => /\ IdsOf(wardrobe') = IdsOf(wardrobe) \ {last'.id}
             /\ IsSubsequence(wardrobe', wardrobe)
     /\ last'.op \notin {"add", "remove"} => wardrobe' = wardrobe
     /\ \A w \in 1..Len(wardrobe') :
          \E n \in 1..uuids' : wardrobe'[w].id = UUID(n)]_vars

\* The first file of a batch was added and then removed by the user; the
\* second file has just been added and the first has not come back.
C29_Witness ==
  /\ upload.isAnalyzing
  /\ Len(upload.files) = 3
  /\ upload.files[1].status = "added"
  /\ upload.files[1].item \notin IdsOf(wardrobe)
  /\ upload.files[2].status = "added"
  /\ last.op = "add"
  /\ last.id = upload.files[2].item
  /\ IdsOf(wardrobe) = {upload.files[2].item}

(***************************************************************************)
(* The outfit generator (checked under GenSpec).                           *)
(***************************************************************************)
\* C19: a submit with a blank occasion or over an empty wardrobe issues no
\* request, a request is only ever issued by a submit with a non-blank
\* occasion over a wardrobe that is not empty, and generateOutfit called
\* with an empty wardrobe throws "Wardrobe empty" without issuing a request.
C19_NoRequestWithoutWardrobeOrOccasion ==
  [][ /\ (last'.op = "generate" /\ (Blank(gen.occasion) \/ Len(wardrobe) = 0))
           => (gen'.requests = gen.requests /\ last'.outcome = "returned")
      /\ gen'.requests > gen.requests
           => (last'.op = "generate" /\ ~Blank(gen.occasion) /\ Len(wardrobe) > 0)
      /\ \A w \in {<<>>, wardrobe, wardrobe'} :
           Len(w) = 0 => GenerateOutfit(w) = [threw |-> "Wardrobe empty",
                                              requested |-> FALSE]
    ]_vars

\* The form was submitted with an occasion typed after the last item of the
\* wardrobe had been removed; no request is in flight.
C19_Witness ==
  /\ last.op = "generate"
  /\ ~Blank(last.text)
  /\ wardrobe = <<>>
  /\ uuids > 0
  /\ gen.requests = 0
  /\ ~gen.isGenerating

(***************************************************************************)
(* The normalizer (checked under NormSpec).                                *)
(***************************************************************************)
\* C20: every outfit card of a response has selectedItemIds, missingItems
\* and pinterestLooks that are arrays.
C20_CardFieldsAreSequences ==
  \A i \in 1..Len(norm.response.outfits) :
    /\ IsArray(norm.response.outfits[i].selectedItemIds)
    /\ IsArray(norm.response.outfits[i].missingItems)
    /\ IsArray(norm.response.outfits[i].pinterestLooks)

\* A payload of the legacy schema: inspirationImages and shopping, where
\* present, are arrays of objects, and so are the links of a shopping entry.
Entries(x) == IF IsArray(x) THEN x.v ELSE <<>>

IsObjects(x) ==
  x.t \in {"undefined", "null"}
    \/ (IsArray(x) /\ \A i \in 1..Len(x.v) : x.v[i].t = "object")

LegacySchema(parsed) ==
  /\ IsObjects(parsed.inspirationImages)
  /\ IsObjects(parsed.shopping)
  /\ \A i \in 1..Len(Entries(parsed.shopping)) :
       IsObjects(Entries(parsed.shopping)[i].links)

\* x, or d when x is one of the values counted as absent
OrDefault(x, absent, d) == IF x \in absent THEN d ELSE x

\* The card of the last normalized payload maps the legacy fields entry by
\* entry, in order: noUrl are the imageUrl and link values that become "",
\* noLabel the label values that become "Store".
LegacyMapping(noUrl, noLabel) ==
  norm.called /\ norm.reply.kind = "json" /\ LegacySchema(norm.reply.parsed)
    => /\ Len(norm.response.outfits) = 1
       /\ LET card == norm.response.outfits[1]
              images == Entries(norm.reply.parsed.inspirationImages)
              shop == Entries(norm.reply.parsed.shopping)
          IN /\ IsArray(card.pinterestLooks)
             /\ Len(card.pinterestLooks.v) = Len(images)
             /\ \A i \in 1..Len(images) :
                  /\ card.pinterestLooks.v[i].previewImageUrl
                       = OrDefault(images[i].imageUrl, noUrl, Str(""))
                  /\ card.pinterestLooks.v[i].pinterestUrl
                       = OrDefault(images[i].link, noUrl, Str(""))
             /\ IsArray(card.missingItems)
             /\ Len(card.missingItems.v) = Len(shop)
             /\ \A i \in 1..Len(shop) :
                  LET options == card.missingItems.v[i].shoppingOptions
                      links == Entries(shop[i].links)
                  IN /\ Len(options) = Len(links)
                     /\ \A j \in 1..Len(links) :
                          /\ options[j].storeName
                               = OrDefault(links[j].label, noLabel,
                                           Str("Store"))
                          /\ options[j].url = links[j].url

\* C21 as stated: for a legacy-schema payload the card has one
\* pinterestLooks entry per inspirationImages entry, in order, with
\* previewImageUrl = imageUrl and pinterestUrl = link, and one missingItems
\* entry per shopping entry, in order, whose shoppingOptions has one entry
\* per link with storeName = label ("Store" when the label is absent) and
\* url = the url of the link.
C21_LegacyMappingAsStated == LegacyMapping({}, {Undefined})

\* C21 as amended: the same mapping, where an absent imageUrl or link
\* becomes "" and an absent or empty label becomes "Store".
C21_LegacyMapping == LegacyMapping({Undefined}, {Undefined, Str("")})

\* The payload of the example has been normalized: one image A (u1, l1), and
\* a second shopping entry Shoes with one link Amazon (a1).
C21_Witness ==
  /\ norm.called
  /\ norm.reply.kind = "json"
  /\ LegacySchema(norm.reply.parsed)
  /\ norm.reply.parsed.inspirationImages
       = Arr(<<Image("object", Str("A"), Str("u1"), Str("l1"))>>)
  /\ Len(Entries(norm.reply.parsed.shopping)) = 2
  /\ Len(norm.response.outfits) = 1
  /\ norm.response.outfits[1].pinterestLooks.v[1].previewImageUrl = Str("u1")
  /\ norm.response.outfits[1].missingItems.v[2].shoppingOptions[1].storeName
       = Str("Amazon")

\* The response tells its caller that normalization failed, and carries a
\* prompt to retry that the chat shows: no outfit, a message and the
\* "Try again" quick reply.
ReportsFailure(response) ==
  /\ Len(response.outfits) = 0
  /\ JTruthy(response.message)
  /\ IsArray(response.suggestions)
  /\ \E i \in 1..Len(response.suggestions.v) :
       response.suggestions.v[i] = "Try again"

\* A well-formed payload with no outfit content.
EmptyResult(reply) ==
  /\ reply.kind = "json"
  /\ Len(Entries(reply.parsed.selectedItemIds)) = 0
  /\ Len(Entries(reply.parsed.inspirationImages)) = 0
  /\ Len(Entries(reply.parsed.shopping)) = 0
  /\ LegacySchema(reply.parsed)
  /\ reply.parsed.selectedItemIds.t # "string"

\* C23: a response text that cannot be parsed as JSON is reported as a
\* failure with a retry prompt the user sees, and the response to a
\* well-formed payload with no outfit content is not such a report.
C23_ParseFailureIsReported ==
  norm.called =>
    /\ norm.reply.kind \in {"unparsable", "prose"}
         => ReportsFailure(norm.response)
    /\ EmptyResult(norm.reply) => ~ReportsFailure(norm.response)

(***************************************************************************)
(* The rendering of stored messages (checked under ViewSpec).              *)
(***************************************************************************)
\* The field of outfits[0], undefined when the data has no outfit.
Current(data, field) ==
  IF HasOutfit(data) THEN data.outfits[1][field] ELSE Undefined

\* The source a field is meant to be taken from: the current schema when it
\* has entries, else the legacy field when that has entries.
Preferred(data, field, legacy) ==
  IF NonEmpty(Current(data, field)) THEN "current"
  ELSE IF NonEmpty(legacy) THEN "legacy"
  ELSE "none"

\* C22: for each of selectedItemIds, missingItems and pinterestLooks, a
\* stylist message shows the value of outfits[0] when it is present and not
\* empty, and the legacy value (top-level selectedItemIds, shopping,
\* inspirationImages) when the field of outfits[0] is absent or empty,
\* whatever the other fields hold.
C22_PerFieldFallback ==
  \A i \in 1..Len(messages) :
    messages[i].data.present =>
      LET data == messages[i].data
          view == MessageView(messages[i], wardrobe, favorites)
      IN /\ view.selected
              = Preferred(data, "selectedItemIds", data.selectedItemIds)
         /\ view.shopping = Preferred(data, "missingItems", data.shopping)
         /\ view.looks
              = Preferred(data, "pinterestLooks", data.inspirationImages)

\* C24: the card of a stylist message is suppressed only when its
\* selectedItemIds, missingItems and pinterestLooks are all empty and it has
\* no reasoning text; a card with reasoning text, or with selectedItemIds
\* that is not empty, is rendered.
C24_CardSuppressedOnlyWhenEmpty ==
  \A i \in 1..Len(messages) :
    HasOutfit(messages[i].data) =>
      LET card == messages[i].data.outfits[1]
          view == MessageView(messages[i], wardrobe, favorites)
      IN /\ ~view.card.shown
              => /\ Len(ArrayOrEmpty(card.selectedItemIds)) = 0
                 /\ Len(ArrayOrEmpty(card.missingItems)) = 0
                 /\ Len(ArrayOrEmpty(card.pinterestLooks)) = 0
                 /\ ~JTruthy(card.reasoning)
         /\ JTruthy(card.reasoning) \/ NonEmpty(card.selectedItemIds)
              => view.card.shown

\* The identifiers of the wardrobe items a card names.
Matched(card, items) ==
  { items[w].id : w \in 1..Len(items) }
    \cap { ArrayOrEmpty(card.selectedItemIds)[k] :
             k \in 1..Len(ArrayOrEmpty(card.selectedItemIds)) }

Range(seq) == { seq[k] : k \in 1..Len(seq) }

\* Every card, under a message or on the favorites tab, shows exactly the
\* wardrobe items its selectedItemIds name.
ShownExactly ==
  /\ \A i \in 1..Len(messages) :
       HasOutfit(messages[i].data) =>
         Range(MessageView(messages[i], wardrobe, favorites)
                 .card.selectedItems)
           = Matched(messages[i].data.outfits[1], wardrobe)
  /\ \A i \in 1..Len(favorites) :
       Range(OutfitCardView(favorites[i], wardrobe, TRUE).selectedItems)
         = Matched(favorites[i], wardrobe)

\* C25: the items shown for an outfit are exactly the items of the current
\* wardrobe whose id is in its selectedItemIds, and removing a wardrobe item
\* changes the selectedItemIds of no favorite and of no message.
C25_ShownItemsFollowWardrobe ==
  [][/\ ShownExactly'
     /\ last'.op = "remove"
          => /\ Len(favorites') = Len(favorites)
             /\ \A i \in 1..Len(favorites) :
                  favorites'[i].selectedItemIds = favorites[i].selectedItemIds
             /\ Len(messages') = Len(messages)
             /\ \A i \in 1..Len(messages) :
                  messages'[i].data = messages[i].data]_vars

\* An item that a favorited card names has just been removed: the card still
\* names it and shows the one item that is left.
C25_Witness ==
  /\ last.op = "remove"
  /\ last.id = UUID(1)
  /\ Len(favorites) = 1
  /\ favorites[1].selectedItemIds
       = Arr(<<UUID(2), UUID(MaxUuids + 1), UUID(1)>>)
  /\ OutfitCardView(favorites[1], wardrobe, TRUE).selectedItems = <<UUID(2)>>

\* C26: a toggle of a favorite leaves the wardrobe and every message of the
\* conversation, with the outfit data it carries, unchanged; an add and a
\* remove leave the favorites and the conversation unchanged.
C26_HandlersChangeOneCollection ==
  [][/\ last'.op = "toggle"
          => wardrobe' = wardrobe /\ messages' = messages
     /\ last'.op \in {"add", "remove"}
          => favorites' = favorites /\ messages' = messages]_vars

\* The card of a message has been favorited over a wardrobe that holds an
\* item the card names.
C26_Witness ==
  /\ last.op = "toggle"
  /\ Len(favorites) = 1
  /\ Len(messages) > 0
  /\ favorites[1] = messages[1].data.outfits[1]
  /\ Matched(favorites[1], wardrobe) # {}

(***************************************************************************)
(* The in-flight flag of the chat (checked under ChatSpec).                *)
(***************************************************************************)
\* C28: isLoading is true exactly while a request of handleSend is
\* outstanding: set when a submission is accepted, cleared when the request
\* has completed, with success or with failure.
C28_FlagTracksRequest == isLoading <=> requests # {}

\* The cards under the messages of the conversation.
CardsShown ==
  { i \in 1..Len(messages) :
      MessageView(messages[i], wardrobe, favorites).card.shown }

\* C30: every card generateStylistResponse built carries the id
\* "generated-outfit"; the favorites, empty at first and changed by toggling
\* the cards of the chat, hold at most one outfit; and a toggle of the card
\* of one message flips the favorite status shown on the card of every
\* message.
C30_OneSharedCardId ==
  [][/\ \A i \in 1..Len(messages') :
          HasOutfit(messages'[i].data)
            => messages'[i].data.outfits[1].id = "generated-outfit"
     /\ Len(favorites') <= 1
     /\ last'.op = "toggle"
          => \A i \in CardsShown :
               /\ i \in CardsShown'
               /\ MessageView(messages'[i], wardrobe', favorites')
                    .card.isFavorite
                    = ~MessageView(messages[i], wardrobe, favorites)
                         .card.isFavorite]_vars

\* The card of the second of two messages has been toggled, and the cards
\* of both messages show the heart of a favorite.
C30_Witness ==
  /\ last.op = "toggle"
  /\ Len(messages) = 2
  /\ CardsShown = {1, 2}
  /\ favorites = <<messages[2].data.outfits[1]>>
  /\ messages[1].data.outfits[1] # messages[2].data.outfits[1]
  /\ \A i \in CardsShown :
       MessageView(messages[i], wardrobe, favorites).card.isFavorite

==========================================================================
